---- MODULE Spec2Model ----
(***************************************************************************)
(* Model of the link-verification engine of src/main.py:                   *)
(*   main                        (construct, fetch, extract, check, report) *)
(*   LinkChecker.check_link      (the probe: HEAD, optional GET, classify)  *)
(*   LinkChecker.check_all_links (ThreadPoolExecutor fan-out, as_completed  *)
(*                                fan-in, three result buckets)             *)
(*                                                                         *)
(* Strings are sequences of characters.  The literal pieces of the status  *)
(* texts are kept as single tokens; the emoji are the tokens "CHECK" (the   *)
(* white check mark), "CROSS", "WARN", "CLOCK", "LOCK" and "LOOP".          *)
(***************************************************************************)
EXTENDS Integers, Sequences, FiniteSets, TLC

\* ------------------------------------------------------------------ bounds
MaxLinks == 3
MaxWorkers == 2
MaxMsgLen == 1
MinCode == 100
MaxCode == 999
MaxMainLinks == 2
MaxUrlLen == 4
MaxFairLinks == 2

\* ------------------------------------------------------- program constants
DefaultMaxWorkers == 10
DetailLen == 50

VARIABLES
    links,          \* the argument: sequence of (url, text) pairs
    max_workers,    \* the argument: size of the thread pool
    pc,             \* position of the thread that called check_all_links
    future_to_link, \* futures submitted so far (future i is for links[i])
    queue,          \* the executor's work queue (future indices, FIFO)
    running,        \* futures whose check_link is executing in a worker
    probe,          \* per future: position inside check_link / future state
    started,        \* per future: number of times check_link was entered
    nHead,          \* per future: HEAD requests issued
    nGet,           \* per future: GET requests issued
    headRes,        \* per future: how the HEAD attempt ended
    getRes,         \* per future: how the GET attempt ended
    outcome,        \* per future: the tuple returned by check_link
    yielded,        \* futures already handed out by as_completed
    results,        \* the dict with the lists working, broken, errors
    doc_url,        \* main: the document URL, a sequence of characters
    doc_id,         \* LinkChecker.doc_id
    html,           \* main: the fetched document, its anchors (href, text)
    mpc,            \* position of main, or the place where it left
    exit_status,    \* the process exit status, -1 while running
    summaries       \* number of calls of print_summary

mainVars == <<doc_url, doc_id, html, mpc, exit_status, summaries>>

vars == <<links, max_workers, pc, future_to_link, queue, running, probe,
          started, nHead, nGet, headRes, getRes, outcome, yielded, results,
          mainVars>>

\* ------------------------------------------------------------ input values
\* (url, text) pairs given to check_all_links: the same URL under two texts
LinkCandidates == {<<"u1", "t1">>, <<"u1", "t2">>}

MsgChars == {"a", "CHECK"}

RECURSIVE SeqsUpTo(_, _)
SeqsUpTo(S, n) ==
    IF n = 0 THEN {<<>>}
    ELSE LET shorter == SeqsUpTo(S, n - 1)
         IN  shorter \cup {Append(s, x) : s \in shorter, x \in S}

\* a message longer than the detail limit, with the check mark beyond it
LongMsg == [k \in 1..(DetailLen + 1) |-> IF k = DetailLen + 1 THEN "CHECK" ELSE "a"]

Msgs == SeqsUpTo(MsgChars, MaxMsgLen) \cup {LongMsg}

\* An exception is the set of classes it is an instance of, and its message.
Exc(classes, msg) == [classes |-> classes \cup {"Exception"}, msg |-> msg]

NoExc == [classes |-> {}, msg |-> <<>>]

ReadTimeout == Exc({"Timeout"}, <<>>)
ConnectTimeout == Exc({"ConnectionError", "Timeout"}, <<>>)
SSLError == Exc({"ConnectionError", "SSLError"}, <<>>)
ConnectionError == Exc({"ConnectionError"}, <<>>)
TooManyRedirects == Exc({"TooManyRedirects"}, <<>>)
OtherErrors == {Exc({}, m) : m \in Msgs}

Exceptions == {ReadTimeout, ConnectTimeout, SSLError, ConnectionError,
               TooManyRedirects} \cup OtherErrors

Codes == MinCode..MaxCode

\* the smaller input sets used when several probes run concurrently
BatchCodes == {200, 404}
BatchExceptions == {ReadTimeout}

\* ------------------------------------------------------------- check_link
NoResponse == [kind |-> "none", code |-> 0, exc |-> NoExc]
Response(c) == [kind |-> "response", code |-> c, exc |-> NoExc]
Raised(e) == [kind |-> "raised", code |-> 0, exc |-> e]

NoOutcome == [url |-> "", status_code |-> -1, status |-> <<>>]

\* str(e)[:50]
Truncate(s) == SubSeq(s, 1, IF Len(s) < DetailLen THEN Len(s) ELSE DetailLen)

\* the status texts
STATUS_OK == <<"CHECK", " OK">>
STATUS_BROKEN == <<"CROSS", " BROKEN (Client Error)">>
STATUS_SERVER_ERROR == <<"WARN", "  SERVER ERROR">>
STATUS_UNKNOWN(status_code) == <<"WARN", "  UNKNOWN (", ToString(status_code), ")">>
STATUS_TIMEOUT == <<"CLOCK", "  TIMEOUT">>
STATUS_SSL_ERROR == <<"LOCK", " SSL ERROR">>
STATUS_CONNECTION_FAILED == <<"CROSS", " CONNECTION FAILED">>
STATUS_TOO_MANY_REDIRECTS == <<"LOOP", " TOO MANY REDIRECTS">>
STATUS_ERROR(e) == <<"CROSS", " ERROR: ">> \o Truncate(e.msg)

\* the if/elif chain over the final response's status code
status_of_off_by_one(status_code) ==
    IF 200 <= status_code /\ status_code <= 400 THEN STATUS_OK
    ELSE IF 400 <= status_code /\ status_code < 500 THEN STATUS_BROKEN
    ELSE IF 500 <= status_code /\ status_code < 600 THEN STATUS_SERVER_ERROR
    ELSE STATUS_UNKNOWN(status_code)

status_of(status_code) ==
    IF 200 <= status_code /\ status_code < 400 THEN STATUS_OK
    ELSE IF 400 <= status_code /\ status_code < 500 THEN STATUS_BROKEN
    ELSE IF 500 <= status_code /\ status_code < 600 THEN STATUS_SERVER_ERROR
    ELSE STATUS_UNKNOWN(status_code)

\* the HEAD statuses after which the GET is issued
NeedsGet405(status_code) == status_code = 405

NeedsGetAnyError(status_code) == status_code >= 400

NeedsGet(status_code) == status_code = 405 \/ status_code = 404

\* the except clauses, in their order; "none" when no clause matches
HandlerNoCatchAll(e) ==
    IF "Timeout" \in e.classes THEN "Timeout"
    ELSE IF "SSLError" \in e.classes THEN "SSLError"
    ELSE IF "ConnectionError" \in e.classes THEN "ConnectionError"
    ELSE IF "TooManyRedirects" \in e.classes THEN "TooManyRedirects"
    ELSE "none"

HandlerConnectionBeforeSSL(e) ==
    IF "Timeout" \in e.classes THEN "Timeout"
    ELSE IF "ConnectionError" \in e.classes THEN "ConnectionError"
    ELSE IF "SSLError" \in e.classes THEN "SSLError"
    ELSE IF "TooManyRedirects" \in e.classes THEN "TooManyRedirects"
    ELSE IF "Exception" \in e.classes THEN "Exception"
    ELSE "none"

HandlerConnectionFirst(e) ==
    IF "ConnectionError" \in e.classes THEN "ConnectionError"
    ELSE IF "Timeout" \in e.classes THEN "Timeout"
    ELSE IF "SSLError" \in e.classes THEN "SSLError"
    ELSE IF "TooManyRedirects" \in e.classes THEN "TooManyRedirects"
    ELSE IF "Exception" \in e.classes THEN "Exception"
    ELSE "none"

Handler(e) ==
    IF "Timeout" \in e.classes THEN "Timeout"
    ELSE IF "SSLError" \in e.classes THEN "SSLError"
    ELSE IF "ConnectionError" \in e.classes THEN "ConnectionError"
    ELSE IF "TooManyRedirects" \in e.classes THEN "TooManyRedirects"
    ELSE IF "Exception" \in e.classes THEN "Exception"
    ELSE "none"

\* what the matching except clause returns
except_result(url, e) ==
    LET h == Handler(e)
    IN  [url |-> url,
         status_code |-> 0,
         status |-> CASE h = "Timeout" -> STATUS_TIMEOUT
                      [] h = "SSLError" -> STATUS_SSL_ERROR
                      [] h = "ConnectionError" -> STATUS_CONNECTION_FAILED
                      [] h = "TooManyRedirects" -> STATUS_TOO_MANY_REDIRECTS
                      [] OTHER -> STATUS_ERROR(e)]

\* what the try body returns for the final response
response_result_shared(url, response) ==
    [url |-> url,
     status_code |-> headRes[1].code,
     status |-> status_of(headRes[1].code)]

response_result(url, response) ==
    [url |-> url,
     status_code |-> response.code,
     status |-> status_of(response.code)]

\* ------------------------------------------------------- check_all_links
N == Len(links)
Futures == 1..N

\* '✅' in status
HasCheckMark(status) == \E k \in 1..Len(status) : status[k] = "CHECK"

\* the if/elif/else that picks the list a result is appended to
Categorize(status_code, status) ==
    IF HasCheckMark(status) THEN "working"
    ELSE IF status_code >= 400 /\ status_code < 600 THEN "broken"
    ELSE "errors"

\* results[...].append(result)
append_replace(list, result) == <<result>>

append(list, result) == Append(list, result)

\* the (url, text) stored in future_to_link for the i-th submitted future
LinkOfFirst(i) == links[1]

LinkOfByUrl(i) ==
    links[CHOOSE k \in 1..Len(links) :
             /\ links[k][1] = links[i][1]
             /\ \A m \in 1..Len(links) : links[m][1] = links[i][1] => m <= k]

LinkOf(i) == links[i]

\* executor.submit puts one work item for the new future on the work queue
EnqueueTwice(q, i) == Append(Append(q, i), i)

Enqueue(q, i) == Append(q, i)

\* the worker pool admits a new call only while a worker thread is free
CanStartAlways == TRUE

CanStartOffByOne == Cardinality(running) < max_workers - 1

CanStart == Cardinality(running) < max_workers

\* futures that as_completed can hand out now
Completed == {i \in Futures : probe[i] \in {"returned", "raised"} /\ i \notin yielded}

\* as_completed is exhausted: the for loop ends
LoopDoneFirst == yielded /= {} \/ future_to_link = <<>>

LoopDone == yielded = DOMAIN future_to_link

\* shutdown(wait=True) at the end of the with block: all workers are idle
WorkersJoined == running = {} /\ queue = <<>>

\* check_all_links called on a constructed LinkChecker, outside main
DirectCall ==
    /\ doc_url = <<"/", "d", "/", "d">>
    /\ doc_id = <<"d">>
    /\ html = <<>>
    /\ mpc = "check"
    /\ exit_status = -1
    /\ summaries = 0

Init ==
    /\ links \in SeqsUpTo(LinkCandidates, MaxLinks)
    /\ max_workers \in 1..MaxWorkers
    /\ pc = "submit"
    /\ future_to_link = <<>>
    /\ queue = <<>>
    /\ running = {}
    /\ probe = [i \in 1..Len(links) |-> "unsubmitted"]
    /\ started = [i \in 1..Len(links) |-> 0]
    /\ nHead = [i \in 1..Len(links) |-> 0]
    /\ nGet = [i \in 1..Len(links) |-> 0]
    /\ headRes = [i \in 1..Len(links) |-> NoResponse]
    /\ getRes = [i \in 1..Len(links) |-> NoResponse]
    /\ outcome = [i \in 1..Len(links) |-> NoOutcome]
    /\ yielded = {}
    /\ results = [working |-> <<>>, broken |-> <<>>, errors |-> <<>>]
    /\ DirectCall

\* executor.submit(self.check_link, url) for the next (url, text) of links
Submit ==
    /\ pc = "submit"
    /\ Len(future_to_link) < N
    /\ LET i == Len(future_to_link) + 1
       IN  /\ future_to_link' = Append(future_to_link, LinkOf(i))
           /\ queue' = Enqueue(queue, i)
           /\ probe' = [probe EXCEPT ![i] = "queued"]
    /\ UNCHANGED mainVars
    /\ UNCHANGED <<links, max_workers, pc, running, started, nHead, nGet,
                   headRes, getRes, outcome, yielded, results>>

\* the dict comprehension is complete; as_completed(future_to_link) begins
EndSubmit ==
    /\ pc = "submit"
    /\ Len(future_to_link) = N
    /\ pc' = "collect"
    /\ UNCHANGED mainVars
    /\ UNCHANGED <<links, max_workers, future_to_link, queue, running, probe,
                   started, nHead, nGet, headRes, getRes, outcome, yielded,
                   results>>

\* a free worker thread takes the oldest work item and enters check_link
StartProbe ==
    /\ queue /= <<>>
    /\ CanStart
    /\ LET i == Head(queue)
       IN  /\ probe' = [probe EXCEPT ![i] = "head"]
           /\ started' = [started EXCEPT ![i] = @ + 1]
           /\ running' = running \cup {i}
    /\ queue' = Tail(queue)
    /\ UNCHANGED mainVars
    /\ UNCHANGED <<links, max_workers, pc, future_to_link, nHead, nGet,
                   headRes, getRes, outcome, yielded, results>>

\* check_link returns (or raises): the future completes, the worker is free;
\* the worker thread does not touch results
FinishAppends(i, raised, out) ==
    /\ probe' = [probe EXCEPT ![i] = IF raised THEN "raised" ELSE "returned"]
    /\ outcome' = [outcome EXCEPT ![i] = IF raised THEN NoOutcome ELSE out]
    /\ running' = running \ {i}
    /\ results' = [results EXCEPT ![Categorize(out.status_code, out.status)] =
                      Append(@, [url |-> out.url,
                                 text |-> future_to_link[i][2],
                                 status_code |-> out.status_code,
                                 status |-> out.status])]

Finish(i, raised, out) ==
    /\ probe' = [probe EXCEPT ![i] = IF raised THEN "raised" ELSE "returned"]
    /\ outcome' = [outcome EXCEPT ![i] = IF raised THEN NoOutcome ELSE out]
    /\ running' = running \ {i}
    /\ UNCHANGED results

\* an exception leaves the try body of check_link
Except(i, e) ==
    Finish(i, Handler(e) = "none", except_result(future_to_link[i][1], e))

\* self.session.head(url, ...) returns a response with status code c
HeadResponse(i, c) ==
    /\ probe[i] = "head"
    /\ nHead' = [nHead EXCEPT ![i] = @ + 1]
    /\ headRes' = [headRes EXCEPT ![i] = Response(c)]
    /\ IF NeedsGet(c)
       THEN /\ probe' = [probe EXCEPT ![i] = "get"]
            /\ UNCHANGED <<outcome, running, results>>
       ELSE Finish(i, FALSE, response_result(future_to_link[i][1], Response(c)))
    /\ UNCHANGED mainVars
    /\ UNCHANGED <<links, max_workers, pc, future_to_link, queue, started,
                   nGet, getRes, yielded>>

\* self.session.head(url, ...) raises e
HeadFail(i, e) ==
    /\ probe[i] = "head"
    /\ nHead' = [nHead EXCEPT ![i] = @ + 1]
    /\ headRes' = [headRes EXCEPT ![i] = Raised(e)]
    /\ Except(i, e)
    /\ UNCHANGED mainVars
    /\ UNCHANGED <<links, max_workers, pc, future_to_link, queue, started,
                   nGet, getRes, yielded>>

\* self.session.get(url, ...) returns a response with status code c
GetResponse(i, c) ==
    /\ probe[i] = "get"
    /\ nGet' = [nGet EXCEPT ![i] = @ + 1]
    /\ getRes' = [getRes EXCEPT ![i] = Response(c)]
    /\ Finish(i, FALSE, response_result(future_to_link[i][1], Response(c)))
    /\ UNCHANGED mainVars
    /\ UNCHANGED <<links, max_workers, pc, future_to_link, queue, started,
                   nHead, headRes, yielded>>

\* self.session.get(url, ...) raises e
GetFail(i, e) ==
    /\ probe[i] = "get"
    /\ nGet' = [nGet EXCEPT ![i] = @ + 1]
    /\ getRes' = [getRes EXCEPT ![i] = Raised(e)]
    /\ Except(i, e)
    /\ UNCHANGED mainVars
    /\ UNCHANGED <<links, max_workers, pc, future_to_link, queue, started,
                   nHead, headRes, yielded>>

\* one iteration of the as_completed loop: future.result(), build the
\* result dict, append it to one of the three lists
Collect(i) ==
    /\ pc = "collect"
    /\ i \in Completed
    /\ yielded' = yielded \cup {i}
    /\ IF probe[i] = "raised"
       THEN /\ pc' = "raised"
            /\ UNCHANGED results
       ELSE LET link == future_to_link[i]
                result == [url |-> link[1],
                           text |-> link[2],
                           status_code |-> outcome[i].status_code,
                           status |-> outcome[i].status]
                bucket == Categorize(outcome[i].status_code, outcome[i].status)
            IN  /\ results' = [results EXCEPT ![bucket] = append(@, result)]
                /\ UNCHANGED pc
    /\ UNCHANGED mainVars
    /\ UNCHANGED <<links, max_workers, future_to_link, queue, running, probe,
                   started, nHead, nGet, headRes, getRes, outcome>>

\* the for loop over as_completed ends; the with block is left
EndCollect ==
    /\ pc = "collect"
    /\ LoopDone
    /\ pc' = "shutdown"
    /\ UNCHANGED mainVars
    /\ UNCHANGED <<links, max_workers, future_to_link, queue, running, probe,
                   started, nHead, nGet, headRes, getRes, outcome, yielded,
                   results>>

\* ThreadPoolExecutor.__exit__ has joined the workers; return results
Return ==
    /\ pc = "shutdown"
    /\ WorkersJoined
    /\ pc' = "returned"
    /\ UNCHANGED mainVars
    /\ UNCHANGED <<links, max_workers, future_to_link, queue, running, probe,
                   started, nHead, nGet, headRes, getRes, outcome, yielded,
                   results>>

Next ==
    \/ Submit
    \/ EndSubmit
    \/ StartProbe
    \/ \E i \in Futures, c \in BatchCodes : HeadResponse(i, c)
    \/ \E i \in Futures, e \in BatchExceptions : HeadFail(i, e)
    \/ \E i \in Futures, c \in BatchCodes : GetResponse(i, c)
    \/ \E i \in Futures, e \in BatchExceptions : GetFail(i, e)
    \/ \E i \in Futures : Collect(i)
    \/ EndCollect
    \/ Return

Spec == Init /\ [][Next]_vars

\* ---------------------------------------------------------------------
\* check_all_links with a scheduler that lets the calling thread and the
\* workers run, and HTTP attempts that end (answer, failure or timeout).
InitFair ==
    /\ links \in SeqsUpTo(LinkCandidates, MaxFairLinks)
    /\ max_workers \in 1..MaxWorkers
    /\ pc = "submit"
    /\ future_to_link = <<>>
    /\ queue = <<>>
    /\ running = {}
    /\ probe = [i \in 1..Len(links) |-> "unsubmitted"]
    /\ started = [i \in 1..Len(links) |-> 0]
    /\ nHead = [i \in 1..Len(links) |-> 0]
    /\ nGet = [i \in 1..Len(links) |-> 0]
    /\ headRes = [i \in 1..Len(links) |-> NoResponse]
    /\ getRes = [i \in 1..Len(links) |-> NoResponse]
    /\ outcome = [i \in 1..Len(links) |-> NoOutcome]
    /\ yielded = {}
    /\ results = [working |-> <<>>, broken |-> <<>>, errors |-> <<>>]
    /\ DirectCall

\* the steps of the thread that called check_all_links
MainThread ==
    \/ Submit
    \/ EndSubmit
    \/ \E i \in Futures : Collect(i)
    \/ EndCollect
    \/ Return

\* the pending HTTP attempt of probe i ends
AttemptEnds(i) ==
    /\ i \in Futures
    /\ \/ \E c \in BatchCodes : HeadResponse(i, c)
       \/ \E e \in BatchExceptions : HeadFail(i, e)
       \/ \E c \in BatchCodes : GetResponse(i, c)
       \/ \E e \in BatchExceptions : GetFail(i, e)

SpecFair ==
    /\ InitFair
    /\ [][Next]_vars
    /\ WF_vars(MainThread)
    /\ WF_vars(StartProbe)
    /\ \A i \in 1..MaxFairLinks : WF_vars(AttemptEnds(i))

\* ---------------------------------------------------------------------
\* One candidate, every status code and every kind of failure.
InitProbe ==
    /\ links \in {<<cand>> : cand \in LinkCandidates}
    /\ max_workers = DefaultMaxWorkers
    /\ pc = "submit"
    /\ future_to_link = <<>>
    /\ queue = <<>>
    /\ running = {}
    /\ probe = [i \in 1..Len(links) |-> "unsubmitted"]
    /\ started = [i \in 1..Len(links) |-> 0]
    /\ nHead = [i \in 1..Len(links) |-> 0]
    /\ nGet = [i \in 1..Len(links) |-> 0]
    /\ headRes = [i \in 1..Len(links) |-> NoResponse]
    /\ getRes = [i \in 1..Len(links) |-> NoResponse]
    /\ outcome = [i \in 1..Len(links) |-> NoOutcome]
    /\ yielded = {}
    /\ results = [working |-> <<>>, broken |-> <<>>, errors |-> <<>>]
    /\ DirectCall

NextProbe ==
    \/ Submit
    \/ EndSubmit
    \/ StartProbe
    \/ \E i \in Futures, c \in Codes : HeadResponse(i, c)
    \/ \E i \in Futures, e \in Exceptions : HeadFail(i, e)
    \/ \E i \in Futures, c \in Codes : GetResponse(i, c)
    \/ \E i \in Futures, e \in Exceptions : GetFail(i, e)
    \/ \E i \in Futures : Collect(i)
    \/ EndCollect
    \/ Return

SpecProbe == InitProbe /\ [][NextProbe]_vars

\* ------------------------------------------------------------------ main
DocUrlChars == {"/", "d", "?"}

\* the characters of the class [a-zA-Z0-9-_] among DocUrlChars
IdChars == {"d"}

\* hrefs and texts of the anchors of a document: the candidates, one with
\* another URL, and the empty and the fragment-only href "" and "#top"
Anchors == LinkCandidates \cup {<<"u2", "t1">>, <<"#top", "t1">>, <<"", "t1">>}

\* url.startswith('#')
StartsWithHash(url) == url = "#top"

\* positions where '/d/' followed by an id character begins
MatchStarts(url) ==
    {k \in 1..Len(url) :
        /\ k + 3 <= Len(url)
        /\ url[k] = "/" /\ url[k + 1] = "d" /\ url[k + 2] = "/"
        /\ url[k + 3] \in IdChars}

\* re.search(r'/d/([a-zA-Z0-9-_]+)', url): group 1 of the leftmost match,
\* <<>> when there is no match (ValueError)
extract_doc_id(url) ==
    IF MatchStarts(url) = {} THEN <<>>
    ELSE LET k == CHOOSE m \in MatchStarts(url) : \A o \in MatchStarts(url) : m <= o
             last == CHOOSE e \in (k + 3)..Len(url) :
                        /\ \A x \in (k + 3)..e : url[x] \in IdChars
                        /\ e = Len(url) \/ url[e + 1] \notin IdChars
         IN  SubSeq(url, k + 3, last)

\* response.raise_for_status() raises
HttpError(status_code) == 400 <= status_code /\ status_code < 600

\* how fetching the document can end
FetchResults == {Response(200), Response(404), Raised(ConnectionError)}

IsLink(anchor) == anchor[1] /= "" /\ ~StartsWithHash(anchor[1])

\* the anchors kept by extract_links, in document order
extract_links(h) == SelectSeq(h, IsLink)

\* the exit status of the process for each way main is left
main_exit_interrupt_ok(how) == IF how \in {"return", "KeyboardInterrupt"} THEN 0 ELSE 1

main_exit_broken_fails(how) == IF how = "return" /\ results.broken = <<>> THEN 0 ELSE 1

main_exit(how) == IF how = "return" THEN 0 ELSE 1

ExitSites == {"exit_invalid_url", "exit_fetch_failed", "exit_no_links",
              "exit_summary", "exit_interrupt"}

InitMain ==
    /\ doc_url \in SeqsUpTo(DocUrlChars, MaxUrlLen)
    /\ doc_id = <<>>
    /\ html = <<>>
    /\ mpc = "init"
    /\ exit_status = -1
    /\ summaries = 0
    /\ links = <<>>
    /\ max_workers = DefaultMaxWorkers
    /\ pc = "idle"
    /\ future_to_link = <<>>
    /\ queue = <<>>
    /\ running = {}
    /\ probe = <<>>
    /\ started = <<>>
    /\ nHead = <<>>
    /\ nGet = <<>>
    /\ headRes = <<>>
    /\ getRes = <<>>
    /\ outcome = <<>>
    /\ yielded = {}
    /\ results = [working |-> <<>>, broken |-> <<>>, errors |-> <<>>]

batchVars == <<links, max_workers, pc, future_to_link, queue, running, probe,
               started, nHead, nGet, headRes, getRes, outcome, yielded, results>>

\* checker = LinkChecker(doc_url); a ValueError reaches except Exception
Construct ==
    /\ mpc = "init"
    /\ doc_id' = extract_doc_id(doc_url)
    /\ IF doc_id' = <<>>
       THEN /\ mpc' = "exit_invalid_url"
            /\ exit_status' = main_exit("Exception")
       ELSE /\ mpc' = "fetch"
            /\ UNCHANGED exit_status
    /\ UNCHANGED <<doc_url, html, summaries>>
    /\ UNCHANGED batchVars

\* html_content = checker.fetch_document(); on failure sys.exit(1) inside it
FetchDocument(r, h) ==
    /\ mpc = "fetch"
    /\ IF r.kind = "response" /\ ~HttpError(r.code)
       THEN /\ html' = h
            /\ mpc' = "extract"
            /\ UNCHANGED exit_status
       ELSE /\ mpc' = "exit_fetch_failed"
            /\ exit_status' = main_exit("SystemExit")
            /\ UNCHANGED html
    /\ UNCHANGED <<doc_url, doc_id, summaries>>
    /\ UNCHANGED batchVars

\* links = checker.extract_links(html_content); return when there are none,
\* else enter checker.check_all_links(links)
ExtractLinks ==
    /\ mpc = "extract"
    /\ LET ls == extract_links(html)
       IN  IF ls = <<>>
           THEN /\ mpc' = "exit_no_links"
                /\ exit_status' = main_exit("return")
                /\ UNCHANGED batchVars
           ELSE /\ mpc' = "check"
                /\ links' = ls
                /\ pc' = "submit"
                /\ probe' = [i \in 1..Len(ls) |-> "unsubmitted"]
                /\ started' = [i \in 1..Len(ls) |-> 0]
                /\ nHead' = [i \in 1..Len(ls) |-> 0]
                /\ nGet' = [i \in 1..Len(ls) |-> 0]
                /\ headRes' = [i \in 1..Len(ls) |-> NoResponse]
                /\ getRes' = [i \in 1..Len(ls) |-> NoResponse]
                /\ outcome' = [i \in 1..Len(ls) |-> NoOutcome]
                /\ UNCHANGED <<max_workers, future_to_link, queue, running,
                               yielded, results, exit_status>>
    /\ UNCHANGED <<doc_url, doc_id, html, summaries>>

\* checker.print_summary(results); main returns
PrintSummary ==
    /\ mpc = "check"
    /\ pc = "returned"
    /\ summaries' = summaries + 1
    /\ mpc' = "exit_summary"
    /\ exit_status' = main_exit("return")
    /\ UNCHANGED <<doc_url, doc_id, html>>
    /\ UNCHANGED batchVars

\* KeyboardInterrupt in the main thread inside the with block: the
\* exception leaves the block through ThreadPoolExecutor.__exit__, which
\* calls shutdown(wait=True)
Interrupt ==
    /\ mpc = "check"
    /\ pc \in {"submit", "collect", "shutdown"}
    /\ pc' = "interrupted"
    /\ UNCHANGED mainVars
    /\ UNCHANGED <<links, max_workers, future_to_link, queue, running, probe,
                   started, nHead, nGet, headRes, getRes, outcome, yielded,
                   results>>

\* shutdown(wait=True) has joined the workers; the KeyboardInterrupt reaches
\* main's except clause: sys.exit(1)
Abort ==
    /\ pc = "interrupted"
    /\ WorkersJoined
    /\ pc' = "aborted"
    /\ mpc' = "exit_interrupt"
    /\ exit_status' = main_exit("KeyboardInterrupt")
    /\ UNCHANGED <<doc_url, doc_id, html, summaries>>
    /\ UNCHANGED <<links, max_workers, future_to_link, queue, running, probe,
                   started, nHead, nGet, headRes, getRes, outcome, yielded,
                   results>>

\* KeyboardInterrupt in main outside the with block
InterruptMain ==
    /\ mpc \in {"init", "fetch", "extract"} \/ (mpc = "check" /\ pc = "returned")
    /\ mpc' = "exit_interrupt"
    /\ exit_status' = main_exit("KeyboardInterrupt")
    /\ UNCHANGED <<doc_url, doc_id, html, summaries>>
    /\ UNCHANGED batchVars

NextMain ==
    \/ Construct
    \/ \E r \in FetchResults, h \in SeqsUpTo(Anchors, MaxMainLinks) : FetchDocument(r, h)
    \/ ExtractLinks
    \/ Submit
    \/ EndSubmit
    \/ StartProbe
    \/ \E i \in Futures, c \in BatchCodes : HeadResponse(i, c)
    \/ \E i \in Futures, e \in BatchExceptions : HeadFail(i, e)
    \/ \E i \in Futures, c \in BatchCodes : GetResponse(i, c)
    \/ \E i \in Futures, e \in BatchExceptions : GetFail(i, e)
    \/ \E i \in Futures : Collect(i)
    \/ EndCollect
    \/ Return
    \/ PrintSummary
    \/ Interrupt
    \/ Abort
    \/ InterruptMain

SpecMain == InitMain /\ [][NextMain]_vars

TypeOK ==
    /\ pc \in {"idle", "submit", "collect", "shutdown", "returned", "raised",
               "interrupted", "aborted"}
    /\ mpc \in {"init", "fetch", "extract", "check"} \cup ExitSites
    /\ exit_status \in {-1, 0, 1}
    /\ running \subseteq Futures
    /\ yielded \subseteq Futures

\* ------------------------------------------------------------ properties
Buckets == {"working", "broken", "errors"}

\* all report entries, the three lists one after the other
AllEntries == results.working \o results.broken \o results.errors

Total == Len(results.working) + Len(results.broken) + Len(results.errors)

\* occurrences of the (url, text) pair cand in the input and in the report
InInput(cand) == Cardinality({k \in 1..Len(links) : links[k] = cand})

InBucket(b, cand) ==
    Cardinality({k \in 1..Len(results[b]) :
                    <<results[b][k].url, results[b][k].text>> = cand})

InReport(cand) == InBucket("working", cand) + InBucket("broken", cand) + InBucket("errors", cand)

\* probes that have entered check_link and not left it
InFlight == {i \in Futures : probe[i] \in {"head", "get"}}

\* C1: when check_all_links returns, the three lists hold N entries in all
\* and every (url, text) pair occurs in the report exactly as often as in
\* the input, repeated pairs included.
C1_Completeness ==
    pc = "returned" =>
        /\ Total = N
        /\ \A cand \in LinkCandidates : InReport(cand) = InInput(cand)

C1_Witness ==
    /\ pc = "returned"
    /\ \E i, j \in Futures : i < j /\ links[i] = links[j]
    /\ \E i, j \in Futures : links[i] /= links[j]
    /\ results.working /= <<>>
    /\ results.errors /= <<>>

\* C2: check_link is entered at most once for each input occurrence at any
\* time, exactly once for every future that ran, and exactly once for every
\* input occurrence by the time check_all_links returns.
C2_ProbedOnce ==
    \A i \in Futures :
        /\ started[i] <= 1
        /\ probe[i] \in {"head", "get", "returned", "raised"} => started[i] = 1
        /\ pc = "returned" => started[i] = 1

C2_Witness ==
    /\ pc = "returned"
    /\ N >= 2
    /\ \A i \in Futures : started[i] = 1
    /\ results.broken /= <<>>
    /\ results.errors /= <<>>

\* C3: the number of probes executing check_link never exceeds max_workers;
\* a queued probe waits while max_workers probes are executing.
C3_BoundedConcurrency == Cardinality(InFlight) <= max_workers

C3_Witness ==
    /\ Cardinality(InFlight) = max_workers
    /\ queue /= <<>>

\* C4: when check_all_links has returned, no probe is queued or executing
\* and every probe's outcome has been appended to one of the lists.
C4_ReturnAfterAll ==
    pc = "returned" =>
        /\ \A i \in Futures : probe[i] = "returned" /\ i \in yielded
        /\ queue = <<>>
        /\ InFlight = {}
        /\ Total = Cardinality(yielded)
        /\ Cardinality(yielded) = N

C4_Witness ==
    /\ pc = "returned"
    /\ N >= 2
    /\ max_workers = 1
    /\ Total = N

\* --- the classification a status text stands for
StartsWith(s, prefix) == Len(s) >= Len(prefix) /\ SubSeq(s, 1, Len(prefix)) = prefix

Classifications(status) ==
    {c \in {"OK", "CLIENT_ERROR", "SERVER_ERROR", "UNKNOWN_STATUS", "TIMEOUT",
            "TLS_ERROR", "CONNECTION_FAILED", "TOO_MANY_REDIRECTS", "OTHER_ERROR"} :
        CASE c = "OK" -> status = <<"CHECK", " OK">>
          [] c = "CLIENT_ERROR" -> status = <<"CROSS", " BROKEN (Client Error)">>
          [] c = "SERVER_ERROR" -> status = <<"WARN", "  SERVER ERROR">>
          [] c = "UNKNOWN_STATUS" -> StartsWith(status, <<"WARN", "  UNKNOWN (">>)
          [] c = "TIMEOUT" -> status = <<"CLOCK", "  TIMEOUT">>
          [] c = "TLS_ERROR" -> status = <<"LOCK", " SSL ERROR">>
          [] c = "CONNECTION_FAILED" -> status = <<"CROSS", " CONNECTION FAILED">>
          [] c = "TOO_MANY_REDIRECTS" -> status = <<"LOOP", " TOO MANY REDIRECTS">>
          [] OTHER -> StartsWith(status, <<"CROSS", " ERROR: ">>)}

\* the last attempt of probe i: the GET when one was issued, else the HEAD
FinalAttempt(i) == IF getRes[i].kind /= "none" THEN getRes[i] ELSE headRes[i]

\* C5: check_link never raises: no future ends with an exception and the
\* collecting thread never sees one; every finished call, whether its HEAD
\* or its GET failed or answered, has returned one (url, status_code,
\* status) triple for its own url.
C5_ProbeNeverRaises ==
    /\ pc /= "raised"
    /\ \A i \in Futures :
        /\ probe[i] /= "raised"
        /\ FinalAttempt(i).kind /= "none" /\ probe[i] /= "get" =>
            /\ probe[i] = "returned"
            /\ outcome[i].url = links[i][1]
            /\ outcome[i].status_code >= 0
            /\ Cardinality(Classifications(outcome[i].status)) = 1

C5_Witness ==
    \E i \in Futures :
        /\ pc = "returned"
        /\ getRes[i].kind = "raised"
        /\ getRes[i].exc.classes = {"Exception"}
        /\ outcome[i].status_code = 0
        /\ results.errors /= <<>>

\* C6: every report entry is in the list the rule names: working exactly
\* when its classification is OK, else broken when its status code is in
\* [400,600), else errors.
ExpectedBucket(r) ==
    IF Classifications(r.status) = {"OK"} THEN "working"
    ELSE IF r.status_code >= 400 /\ r.status_code < 600 THEN "broken"
    ELSE "errors"

C6_BucketRule ==
    \A b \in Buckets : \A k \in 1..Len(results[b]) : b = ExpectedBucket(results[b][k])

\* C7: a probe whose final attempt answered with status code c returns
\* status_code c and exactly one classification: OK for [200,400),
\* CLIENT_ERROR for [400,500), SERVER_ERROR for [500,600), UNKNOWN_STATUS
\* for every other code.
ExpectedClass(c) ==
    CASE c \in 200..399 -> "OK"
      [] c \in 400..499 -> "CLIENT_ERROR"
      [] c \in 500..599 -> "SERVER_ERROR"
      [] OTHER -> "UNKNOWN_STATUS"

C7_ClassificationTotal ==
    \A i \in Futures :
        probe[i] = "returned" /\ FinalAttempt(i).kind = "response" =>
            /\ outcome[i].status_code = FinalAttempt(i).code
            /\ Classifications(outcome[i].status) = {ExpectedClass(FinalAttempt(i).code)}

C7_Witness ==
    \E i \in Futures :
        /\ probe[i] = "returned"
        /\ headRes[i] = Response(199)
        /\ Classifications(outcome[i].status) = {"UNKNOWN_STATUS"}
        /\ i \in yielded
        /\ results.errors /= <<>>

\* the list a GET response's status code alone puts the entry in
BucketOfCode(c) ==
    IF c \in 200..399 THEN "working" ELSE IF c \in 400..599 THEN "broken" ELSE "errors"

\* C8: a probe whose HEAD answered 404 or 405 and that has finished issued
\* exactly one GET, and its status code, classification and list are those
\* of the GET's result: the GET's code and class when it answered, status
\* code 0 and a failure class when it failed.
C8_FallbackDecides ==
    \A i \in Futures :
        probe[i] = "returned" /\ headRes[i].kind = "response"
                              /\ headRes[i].code \in {404, 405} =>
            /\ nHead[i] = 1
            /\ nGet[i] = 1
            /\ getRes[i].kind = "response" =>
                /\ outcome[i].status_code = getRes[i].code
                /\ Classifications(outcome[i].status) = {ExpectedClass(getRes[i].code)}
                /\ i \in yielded =>
                    /\ Len(results[BucketOfCode(getRes[i].code)]) = 1
                    /\ Total = 1
            /\ getRes[i].kind = "raised" =>
                /\ outcome[i].status_code = 0
                /\ Classifications(outcome[i].status) \subseteq
                       {"TIMEOUT", "TLS_ERROR", "CONNECTION_FAILED",
                        "TOO_MANY_REDIRECTS", "OTHER_ERROR"}
                /\ Cardinality(Classifications(outcome[i].status)) = 1
            /\ (headRes[i].code = 405 /\ getRes[i] = Response(200) /\ i \in yielded) =>
                   Len(results.working) = 1
            /\ (headRes[i].code = 404 /\ getRes[i] = Response(404) /\ i \in yielded) =>
                   /\ Len(results.broken) = 1
                   /\ Classifications(outcome[i].status) = {"CLIENT_ERROR"}

C8_Witness ==
    \E i \in Futures :
        /\ headRes[i] = Response(404)
        /\ getRes[i] = Response(200)
        /\ i \in yielded
        /\ Len(results.working) = 1

\* C9: a probe issues at most one HEAD and at most one GET, and a GET only
\* after its own HEAD answered 404 or 405.
C9_FallbackGuard ==
    \A i \in Futures :
        /\ nHead[i] <= 1
        /\ nGet[i] <= 1
        /\ (nGet[i] > 0 \/ probe[i] = "get") =>
            /\ headRes[i].kind = "response"
            /\ headRes[i].code \in {404, 405}
        /\ nGet[i] > 0 => getRes[i].kind /= "none"
        /\ nGet[i] = 0 => getRes[i].kind = "none"

C9_Witness ==
    /\ pc = "returned"
    /\ \E i \in Futures :
        /\ headRes[i] = Response(500)
        /\ nHead[i] = 1
        /\ nGet[i] = 0

\* C10: a probe whose final attempt failed returns status_code 0 and the
\* classification of the failure: TIMEOUT for a timeout, TLS_ERROR for a
\* TLS failure, CONNECTION_FAILED for a plain connection failure,
\* TOO_MANY_REDIRECTS for the redirect limit, OTHER_ERROR for anything
\* else; also when the failure is the GET's after a HEAD 404/405.
SpecificClasses == {"Timeout", "SSLError", "ConnectionError", "TooManyRedirects"}

C10_FailureClassification ==
    \A i \in Futures :
        probe[i] /= "get" /\ FinalAttempt(i).kind = "raised" =>
            LET cl == FinalAttempt(i).exc.classes \cap SpecificClasses
                cs == Classifications(outcome[i].status)
            IN  /\ probe[i] = "returned"
                /\ outcome[i].status_code = 0
                /\ "Timeout" \in cl => cs = {"TIMEOUT"}
                /\ "SSLError" \in cl => cs = {"TLS_ERROR"}
                /\ cl = {"ConnectionError"} => cs = {"CONNECTION_FAILED"}
                /\ cl = {"TooManyRedirects"} => cs = {"TOO_MANY_REDIRECTS"}
                /\ cl = {} => cs = {"OTHER_ERROR"}

C10_Witness ==
    \E i \in Futures :
        /\ headRes[i] = Response(405)
        /\ getRes[i] = Raised(SSLError)
        /\ outcome[i].status_code = 0
        /\ i \in yielded
        /\ Len(results.errors) = 1

\* C11: after a KeyboardInterrupt inside the with block no probe that is
\* still queued is started.
C11_HardStop ==
    [][pc = "interrupted" =>
          \A i \in Futures : probe[i] = "queued" => probe'[i] = "queued"]_vars

\* C12: once a KeyboardInterrupt has hit check_all_links, print_summary has
\* not been and is never called, the exit status is never zero, and when
\* the process has exited it did so through the KeyboardInterrupt clause
\* with status 1.
C12_InterruptFatal ==
    pc \in {"interrupted", "aborted"} =>
        /\ summaries = 0
        /\ exit_status /= 0
        /\ mpc \in {"check", "exit_interrupt"}
        /\ pc = "aborted" <=> mpc = "exit_interrupt"
        /\ mpc = "exit_interrupt" => exit_status = 1

C12_Witness ==
    /\ pc = "aborted"
    /\ exit_status = 1
    /\ results.working /= <<>>
    /\ Total < N

\* C13 as stated: a run that fetched the document and was not interrupted
\* ends with exactly one summary and exit status 0; a run that failed to
\* construct the checker or to fetch ends with exit status 1 before any
\* probe was dispatched.
C13_Original ==
    /\ mpc \in {"exit_no_links", "exit_summary"} =>
        /\ summaries = 1
        /\ exit_status = 0
    /\ mpc \in {"exit_invalid_url", "exit_fetch_failed"} =>
        /\ exit_status = 1
        /\ future_to_link = <<>>

\* C13 amended: a run that fetched a document with at least one link and
\* was not interrupted ends with exactly one summary and exit status 0,
\* whatever the lists broken and errors hold; a fetched document without
\* links ends with exit status 0 and no summary; a run that failed to
\* construct the checker or to fetch ends with exit status 1, no summary,
\* and before any probe was dispatched.
C13_CompletedRun ==
    /\ summaries <= 1
    /\ mpc = "exit_summary" =>
        /\ summaries = 1
        /\ exit_status = 0
        /\ Total = N
    /\ (mpc \in {"exit_no_links", "exit_summary"} /\ extract_links(html) /= <<>>) =>
        mpc = "exit_summary"
    /\ mpc = "exit_no_links" =>
        /\ extract_links(html) = <<>>
        /\ summaries = 0
        /\ exit_status = 0
        /\ future_to_link = <<>>
    /\ mpc \in {"exit_invalid_url", "exit_fetch_failed"} =>
        /\ exit_status = 1
        /\ summaries = 0
        /\ links = <<>>
        /\ future_to_link = <<>>

C13_Witness ==
    /\ mpc = "exit_summary"
    /\ exit_status = 0
    /\ summaries = 1
    /\ results.broken /= <<>>
    /\ results.errors /= <<>>

\* the report entry of input occurrence i, from its own outcome
Entry(i) ==
    [url |-> links[i][1],
     text |-> links[i][2],
     status_code |-> outcome[i].status_code,
     status |-> outcome[i].status]

Occurrences(list, r) == Cardinality({k \in 1..Len(list) : list[k] = r})

\* C14: whatever the arrival order, each list holds, as a multiset, exactly
\* the entries of the collected probes whose own outcome selects that list;
\* the contents are a function of the input and the outcomes alone.
C14_OrderIndependent ==
    \A b \in Buckets :
        /\ Len(results[b]) =
              Cardinality({j \in yielded :
                  Categorize(outcome[j].status_code, outcome[j].status) = b})
        /\ \A i \in yielded :
              Occurrences(results[b], Entry(i)) =
                  Cardinality({j \in yielded :
                      /\ Entry(j) = Entry(i)
                      /\ Categorize(outcome[j].status_code, outcome[j].status) = b})

\* two working entries arrived in the reverse of the input order
C14_Witness ==
    /\ pc = "returned"
    /\ \E i, j \in Futures :
        /\ i < j
        /\ Entry(i) /= Entry(j)
        /\ Len(results.working) >= 2
        /\ results.working[1] = Entry(j)
        /\ results.working[2] = Entry(i)

\* the classification that the own final attempt of a probe calls for
OwnClass(att) ==
    IF att.kind = "response" THEN ExpectedClass(att.code)
    ELSE CASE "Timeout" \in att.exc.classes -> "TIMEOUT"
           [] "SSLError" \in att.exc.classes -> "TLS_ERROR"
           [] "ConnectionError" \in att.exc.classes -> "CONNECTION_FAILED"
           [] "TooManyRedirects" \in att.exc.classes -> "TOO_MANY_REDIRECTS"
           [] OTHER -> "OTHER_ERROR"

SomeProbeFailed == \E j \in Futures : FinalAttempt(j).kind = "raised"

\* C15: the outcome of every finished probe is that of its own final
\* attempt (own url, own status code or 0, own classification), whatever
\* the other probes got; and when some probe timed out, check_all_links
\* still does not raise, and at return every candidate was probed once and
\* is in the report.
C15_Isolation ==
    /\ pc /= "raised"
    /\ \A i \in Futures :
        probe[i] = "returned" =>
            /\ outcome[i].url = links[i][1]
            /\ outcome[i].status_code =
                  IF FinalAttempt(i).kind = "response" THEN FinalAttempt(i).code ELSE 0
            /\ Classifications(outcome[i].status) = {OwnClass(FinalAttempt(i))}
    /\ (pc = "returned" /\ SomeProbeFailed) =>
        \A i \in Futures : started[i] = 1 /\ probe[i] = "returned" /\ i \in yielded

\* a timed-out probe next to one that answered 200 and one that got 404
C15_Witness ==
    /\ pc = "returned"
    /\ \E i, j \in Futures :
        /\ i /= j
        /\ headRes[i] = Raised(ReadTimeout)
        /\ outcome[j].status_code = 200
    /\ Len(results.errors) = 1
    /\ Len(results.working) >= 1

\* C16: a candidate whose URL the transport rejects (the HEAD raises an
\* error that is no timeout, TLS or redirect failure) is still probed, gets
\* status_code 0 and OTHER_ERROR or CONNECTION_FAILED, and its entry is in
\* errors, never in working or broken, whatever the error message holds.
C16_MalformedInErrors ==
    \A i \in Futures :
        (/\ headRes[i].kind = "raised"
         /\ headRes[i].exc.classes \cap SpecificClasses \subseteq {"ConnectionError"}) =>
            /\ started[i] = 1
            /\ probe[i] = "returned"
            /\ outcome[i].status_code = 0
            /\ Classifications(outcome[i].status) \in {{"OTHER_ERROR"}, {"CONNECTION_FAILED"}}
            /\ i \in yielded =>
                /\ Len(results.errors) = 1
                /\ results.working = <<>>
                /\ results.broken = <<>>

\* C17: the first matching except clause decides: a failure that is both a
\* timeout and a connection failure is TIMEOUT, a TLS failure (also a
\* connection failure) is TLS_ERROR, neither is CONNECTION_FAILED, and
\* every failure has exactly one classification.
C17_HandlerPrecedence ==
    \A i \in Futures :
        (probe[i] /= "get" /\ FinalAttempt(i).kind = "raised") =>
            LET cl == FinalAttempt(i).exc.classes
                cs == Classifications(outcome[i].status)
            IN  /\ Cardinality(cs) = 1
                /\ {"Timeout", "ConnectionError"} \subseteq cl => cs = {"TIMEOUT"}
                /\ {"SSLError", "ConnectionError"} \subseteq cl => cs = {"TLS_ERROR"}
                /\ ("Timeout" \in cl \/ "SSLError" \in cl) => "CONNECTION_FAILED" \notin cs
                /\ "CONNECTION_FAILED" \in cs => cl \cap SpecificClasses = {"ConnectionError"}

C17_Witness ==
    \E i \in Futures :
        /\ probe[i] = "returned"
        /\ headRes[i] = Response(404)
        /\ getRes[i] = Raised(ConnectTimeout)
        /\ outcome[i].status = STATUS_TIMEOUT
        /\ i \in yielded

\* C18: every iteration of the as_completed loop appends, for the future i
\* it was handed, the entry made of the (url, text) of input occurrence i
\* and the status code and status returned by the probe of occurrence i,
\* whose returned url is that same url; nothing else changes in the report.
C18_NoCrossWiring ==
    [][\A i \in Futures :
          (i \notin yielded /\ i \in yielded') =>
              /\ outcome[i].url = links[i][1]
              /\ \E b \in Buckets :
                    /\ results'[b] = Append(results[b], Entry(i))
                    /\ \A o \in Buckets \ {b} : results'[o] = results[o]]_vars

\* same URL, different texts, different outcomes, collected in reverse
C18_Witness ==
    /\ pc = "returned"
    /\ \E i, j \in Futures :
        /\ i < j
        /\ links[i][1] = links[j][1]
        /\ links[i][2] /= links[j][2]
        /\ results.errors = <<Entry(j)>>
        /\ results.working = <<Entry(i)>>
        /\ headRes[j] = Raised(ReadTimeout)

IsPrefix(s, t) == Len(s) <= Len(t) /\ SubSeq(t, 1, Len(s)) = s

\* C19: the report changes only in a step of the thread that called
\* check_all_links while it is in the as_completed loop: such a step hands
\* out one future and appends one entry; steps of the worker threads (a
\* probe starting, answering, failing, returning) leave the report as it
\* is, and no entry already appended is ever lost or overwritten.
C19_SingleWriter ==
    [][/\ \A b \in Buckets : IsPrefix(results[b], results'[b])
       /\ results' /= results =>
            /\ pc = "collect"
            /\ probe' = probe /\ running' = running /\ outcome' = outcome
            /\ queue' = queue
            /\ \E i \in Futures \ yielded : yielded' = yielded \cup {i}
            /\ Len(results'.working) + Len(results'.broken) + Len(results'.errors)
                  = Total + 1
       /\ (probe' /= probe \/ running' /= running \/ outcome' /= outcome) =>
            results' = results]_vars

\* entries are in the report while workers are still inside check_link
C19_Witness ==
    /\ pc = "collect"
    /\ Total >= 1
    /\ Cardinality(InFlight) >= 2

\* C20: when the calling thread and the workers keep running and every
\* HTTP attempt ends, check_all_links eventually returns with all N
\* outcomes in the report, for every input of 0..MaxFairLinks candidates
\* (the empty input gives three empty lists) and every max_workers >= 1.
C20_Termination ==
    <>(/\ pc = "returned"
       /\ Total = N
       /\ yielded = Futures
       /\ N = 0 => results = [working |-> <<>>, broken |-> <<>>, errors |-> <<>>])

C20_Witness ==
    /\ pc = "returned"
    /\ N >= 2
    /\ max_workers = 1
    /\ Total = N
    /\ \E i \in Futures : getRes[i] = Raised(ReadTimeout)
====
